---- MODULE Spec2Model ----
(***************************************************************************)
(* PartialContentServer (src/server.js): a static file server answering    *)
(* RFC 7233 range requests.  The module models                             *)
(*   - getRanges: the Range header parser (text in, byte ranges out),      *)
(*   - isDenialOfServiceAttacks: the point-scoring rejection heuristic,    *)
(*   - partialContentHeaders: the multipart part header blocks,            *)
(*   - httpListener: the dispatcher, as one atomic step per request, and   *)
(*   - responseAllStream: the sequential multiplexer, driven by the read   *)
(*     streams' events (data, end, close, error) and by the transport      *)
(*     closing the response.                                               *)
(* Text is a sequence of one-character strings, so that parsing and        *)
(* formatting are computed character by character.                         *)
(***************************************************************************)
EXTENDS Integers, Sequences, FiniteSets, TLC

VARIABLES
  request,      \* the incoming message: method, url, headers
  pc,           \* "start" | "returned" (httpListener returned) | "crashed"
  response,     \* the http.ServerResponse: statusCode, statusMessage, headers, ...
  ranges,       \* what getRanges returned or threw inside httpListener
  streams,      \* the fs.ReadStream objects created by the request, in creation order
  streamQueue,  \* responseAllStream: the `streams` array still to be shifted (ids)
  headerQueue,  \* responseAllStream: the `headers` array still to be shifted
  promise,      \* the promise chain of responseAllStream(...).then(...).catch(...)
  endBoundary,  \* the closing boundary captured by the .then callback
  sinkClosed,   \* the transport closed the response before it finished
  call,         \* arguments of a direct getRanges call (SpecRanges)
  ret           \* result of that call (SpecRanges)

vars == <<request, pc, response, ranges, streams, streamQueue, headerQueue,
          promise, endBoundary, sinkClosed, call, ret>>

(***************************************************************************)
(* Bounds of the model.                                                    *)
(***************************************************************************)
MaxSpecs == 2          \* range-specs per Range header in the dispatcher runs
MaxCallSpecs == 2      \* range-specs per Range header in direct getRanges calls

(***************************************************************************)
(* Text.                                                                   *)
(***************************************************************************)
DIGITS == <<"0", "1", "2", "3", "4", "5", "6", "7", "8", "9">>

IsDigit(c) == \E i \in 1..10 : DIGITS[i] = c

DigitValue(c) == (CHOOSE i \in 1..10 : DIGITS[i] = c) - 1

\* Number(str) of a string of decimal digits
RECURSIVE Number(_)
Number(s) ==
  IF s = <<>> THEN 0
  ELSE 10 * Number(SubSeq(s, 1, Len(s) - 1)) + DigitValue(s[Len(s)])

RECURSIVE NatToString(_)
NatToString(n) ==
  IF n < 10 THEN <<DIGITS[n + 1]>>
  ELSE NatToString(n \div 10) \o <<DIGITS[(n % 10) + 1]>>

\* `${n}` of an integer
NumberToString(n) == IF n < 0 THEN <<"-">> \o NatToString(-n) ELSE NatToString(n)

IsSpace(c) == c \in {" ", "\t", "\r", "\n"}

\* String.prototype.trim
RECURSIVE Trim(_)
Trim(s) ==
  IF s = <<>> THEN s
  ELSE IF IsSpace(s[1]) THEN Trim(Tail(s))
  ELSE IF IsSpace(s[Len(s)]) THEN Trim(SubSeq(s, 1, Len(s) - 1))
  ELSE s

\* String.prototype.split with a one-character separator
RECURSIVE Split(_, _)
Split(s, sep) ==
  IF \A i \in 1..Len(s) : s[i] # sep THEN <<s>>
  ELSE LET p == CHOOSE i \in 1..Len(s) :
                  s[i] = sep /\ \A j \in 1..(i - 1) : s[j] # sep
       IN <<SubSeq(s, 1, p - 1)>> \o Split(SubSeq(s, p + 1, Len(s)), sep)

RECURSIVE Join(_, _)
Join(parts, sep) ==
  IF Len(parts) = 0 THEN <<>>
  ELSE IF Len(parts) = 1 THEN parts[1]
  ELSE parts[1] \o sep \o Join(Tail(parts), sep)

STR_bytes == <<"b", "y", "t", "e", "s">>
STR_undefined == <<"u", "n", "d", "e", "f", "i", "n", "e", "d">>
CRLF == <<"\r", "\n">>

(***************************************************************************)
(* ERRORS (and the TypeError the runtime throws on undefined / null).      *)
(***************************************************************************)
NOT_FOUND == [statusCode |-> 404, statusMessage |-> "Not Found"]
METHOD_NOT_ALLOWED == [statusCode |-> 405, statusMessage |-> "Method Not Allowed"]
BYTES_UNIT_NOT_VALID == [statusCode |-> 416, statusMessage |-> "Bytes unit not valid"]
RANGE_NOT_SATISFABLE == [statusCode |-> 416, statusMessage |-> "Range Not Satisfable"]
INTERNAL_SERVER_ERROR == [statusCode |-> 500, statusMessage |-> "Internal Server Error"]
TypeError == [name |-> "TypeError"]
RangeError == [name |-> "RangeError"]
NoError == [name |-> "none"]

highWaterMark == 65536
partialMaxLength == 524288

(***************************************************************************)
(* isDenialOfServiceAttacks.  MULTIPLICATOR is 1 or 1.5; it is kept as a   *)
(* numerator over MULTIPLICATOR_SCALE so that the product stays integral.  *)
(***************************************************************************)
POINT_OF_NOT_SATISFABLE == 10
POINT_CROSS_RANGE == 3
POINT_SMALL_RANGE == 2
SMALL_RANGE == 65536
MULTIPLICATOR_SCALE == 2
POINT_NOT_SORTED_MULTIPLICATOR == 3     \* 1.5 * MULTIPLICATOR_SCALE

Max(a, b) == IF a > b THEN a ELSE b
Min(a, b) == IF a < b THEN a ELSE b

\* IsInverted with one byte of slack (start > end + 1)
IsInverted_slack(value) == value.start > value.end + 1

\* line 253: value.start > value.end
IsInverted(value) == value.start > value.end

\* line 257: value.end - value.start < SMALL_RANGE
IsSmallRange(value) == value.end - value.start < SMALL_RANGE

\* line 262: the test that switches the multiplier on
IsNotSorted(check, value) == check.end < value.start

\* IsCrossRange with the widths (end - start + 1) on the right-hand side
IsCrossRange_widths(check, value) ==
  (Max(check.end, value.end) - Min(check.start, value.start))
    < ((check.end - check.start + 1) + (value.end - value.start + 1))

\* line 265: the test that adds POINT_CROSS_RANGE
IsCrossRange(check, value) ==
  (Max(check.end, value.end) - Min(check.start, value.start))
    < ((check.end - check.start) + (value.end - value.start))

\* the forEach of lines 251-270, from element `index` on, with acc the
\* loop's variables POINT_SUM, MULTIPLICATOR and check
RECURSIVE DosLoop(_, _, _)
DosLoop(byteRangeSet, index, acc) ==
  IF index > Len(byteRangeSet) THEN acc
  ELSE LET value == byteRangeSet[index]
           inverted == IF IsInverted(value) THEN POINT_OF_NOT_SATISFABLE ELSE 0
           small == IF IsSmallRange(value) THEN POINT_SMALL_RANGE ELSE 0
           cross == IF index > 1 /\ IsCrossRange(acc.check, value)
                    THEN POINT_CROSS_RANGE ELSE 0
           mult == IF index > 1 /\ IsNotSorted(acc.check, value)
                   THEN POINT_NOT_SORTED_MULTIPLICATOR ELSE acc.MULTIPLICATOR
       IN DosLoop(byteRangeSet, index + 1,
                  [POINT_SUM |-> acc.POINT_SUM + inverted + small + cross,
                   MULTIPLICATOR |-> mult,
                   check |-> value])

DosScore(byteRangeSet) ==
  DosLoop(byteRangeSet, 1,
          [POINT_SUM |-> 0, MULTIPLICATOR |-> MULTIPLICATOR_SCALE,
           check |-> byteRangeSet[1]])

\* line 271, both sides multiplied by MULTIPLICATOR_SCALE
isDenialOfServiceAttacks(byteRangeSet) ==
  LET s == DosScore(byteRangeSet)
  IN s.POINT_SUM * s.MULTIPLICATOR >= POINT_OF_NOT_SATISFABLE * MULTIPLICATOR_SCALE

(***************************************************************************)
(* getRanges.                                                              *)
(***************************************************************************)
\* /([0-9]{0,})\-([0-9]{0,})/g.exec(value): the leftmost match starts at the
\* digit run in front of the first "-"; null when value holds no "-"
RangeRegExpExec(value) ==
  IF \A i \in 1..Len(value) : value[i] # "-"
  THEN [matched |-> FALSE, start |-> <<>>, end |-> <<>>]
  ELSE LET p == CHOOSE i \in 1..Len(value) :
                  value[i] = "-" /\ \A j \in 1..(i - 1) : value[j] # "-"
           a == CHOOSE i \in 1..p :
                  /\ \A j \in i..(p - 1) : IsDigit(value[j])
                  /\ (i > 1 => ~IsDigit(value[i - 1]))
           b == CHOOSE i \in p..Len(value) :
                  /\ \A j \in (p + 1)..i : IsDigit(value[j])
                  /\ (i < Len(value) => ~IsDigit(value[i + 1]))
       IN [matched |-> TRUE,
           start |-> SubSeq(value, a, p - 1),
           end |-> SubSeq(value, p + 1, b)]

\* a JavaScript value that is a number or the empty string
JsNumber(n) == [type |-> "number", v |-> n]
JsEmptyString == [type |-> "string", v |-> 0]      \* '' coerces to 0
\* x ? Number(x) : x  for a captured group
CaptureValue(s) == IF s # <<>> THEN JsNumber(Number(s)) ELSE JsEmptyString
\* !x alone, without the x !== 0 in front
IsOmitted_falsy(x) == x.type = "string" \/ x.v = 0

\* (x !== 0 && !x)
IsOmitted(x) == ~(x.type = "number" /\ x.v = 0) /\ (x.type = "string" \/ x.v = 0)

\* line 219
limit(val, fileSize, correctValues) ==
  IF correctValues
  THEN (IF val < 0 THEN 0 ELSE IF val > fileSize - 1 THEN fileSize - 1 ELSE val)
  ELSE val

\* Truncate with the end put one byte further (start + maxLength)
Truncate_inclusive(start, end, maxLength) ==
  IF maxLength # 0 /\ (end - start + 1) > maxLength
  THEN start + maxLength
  ELSE end

\* lines 223-225
Truncate(start, end, maxLength) ==
  IF maxLength # 0 /\ (end - start + 1) > maxLength
  THEN start + maxLength - 1
  ELSE end

\* the body of the forEach of lines 205-228 for one matched range-spec
ExpandRange(m, fileSize, options) ==
  LET start0 == CaptureValue(m.start)
      end0 == CaptureValue(m.end)
      noStart == IsOmitted(start0)
      start1 == IF noStart THEN JsNumber(fileSize - end0.v) ELSE start0
      end1 == IF noStart THEN JsNumber(fileSize - 1) ELSE end0
      end2 == IF IsOmitted(end1) THEN JsNumber(fileSize - 1) ELSE end1
      start == limit(start1.v, fileSize, options.correctValues)
      end == limit(end2.v, fileSize, options.correctValues)
  IN [start |-> start, end |-> Truncate(start, end, options.partialMaxLength)]

\* RangeLength without the + 1 (the distance end - start)
RangeLength_exclusive(range) == range.end - range.start

\* line 226: what one range adds to length
RangeLength(range) == range.end - range.start + 1

Threw(error) == [threw |-> TRUE, error |-> error, byteRangeSet |-> <<>>, length |-> 0]
Returned(byteRangeSet, length) ==
  [threw |-> FALSE, error |-> NoError, byteRangeSet |-> byteRangeSet, length |-> length]

DefaultOptions == [correctValues |-> FALSE, preventAtack |-> TRUE, partialMaxLength |-> 0]

\* the forEach of lines 205-228 from element `index` on, acc holding the
\* loop's byteRangeSet and length; destructuring the null of a value without
\* "-" throws a TypeError, which ends the loop
RECURSIVE RangesLoop(_, _, _, _, _)
RangesLoop(values, index, fileSize, options, acc) ==
  IF index > Len(values) THEN acc
  ELSE LET m == RangeRegExpExec(values[index])
       IN IF ~m.matched THEN Threw(TypeError)
          ELSE LET r == ExpandRange(m, fileSize, options)
               IN RangesLoop(values, index + 1, fileSize, options,
                             Returned(Append(acc.byteRangeSet, r),
                                      acc.length + RangeLength(r)))

getRanges(range, fileSize, options) ==
  LET parts == Split(Trim(range), "=")
      bytesUnit == parts[1]
  IN IF bytesUnit # STR_bytes THEN Threw(BYTES_UNIT_NOT_VALID)
     ELSE IF Len(parts) < 2 THEN Threw(TypeError)     \* undefined.split
     ELSE LET loop == RangesLoop(Split(parts[2], ","), 1, fileSize, options,
                                 Returned(<<>>, 0))
          IN IF loop.threw THEN loop
             ELSE IF options.preventAtack /\ isDenialOfServiceAttacks(loop.byteRangeSet)
             THEN Threw([statusCode |-> RANGE_NOT_SATISFABLE.statusCode,
                         statusMessage |-> RANGE_NOT_SATISFABLE.statusMessage,
                         fileSize |-> fileSize])
             ELSE loop

(***************************************************************************)
(* The file system under filesFolder and the content types.                *)
(***************************************************************************)
STR_audio_mp4 == <<"a", "u", "d", "i", "o", "/", "m", "p", "4">>
STR_text == <<"t", "e", "x", "t">>
STR_text_html == <<"t", "e", "x", "t", "/", "h", "t", "m", "l", ";", " ", "c", "h", "a", "r", "s", "e", "t", "=", "U", "T", "F", "-", "8">>
STR_octet_stream == <<"a", "p", "p", "l", "i", "c", "a", "t", "i", "o", "n", "/", "o", "c", "t", "e", "t", "-", "s", "t", "r", "e", "a", "m">>
STR_no_cache == <<"n", "o", "-", "c", "a", "c", "h", "e">>
STR_GET == <<"G", "E", "T">>
STR_GET_HEAD == <<"G", "E", "T", ",", "H", "E", "A", "D">>
STR_multipart == <<"m", "u", "l", "t", "i", "p", "a", "r", "t", "/", "b", "y", "t", "e", "r", "a", "n", "g", "e", "s", ";", " ", "b", "o", "u", "n", "d", "a", "r", "y", "=">>
STR_ContentType == <<"C", "o", "n", "t", "e", "n", "t", "-", "T", "y", "p", "e", ":", " ">>
STR_ContentRange == <<"C", "o", "n", "t", "e", "n", "t", "-", "R", "a", "n", "g", "e", ":", " ", "b", "y", "t", "e", "s", " ">>
STR_bytes_sp == <<"b", "y", "t", "e", "s", " ">>
STR_bytes_star == <<"b", "y", "t", "e", "s", " ", "*", "/">>
STR_attachment == <<"a", "t", "t", "a", "c", "h", "m", "e", "n", "t", ";", " ", "f", "i", "l", "e", "n", "a", "m", "e", "=", "\"">>

\* the files a request can name: what fs.existsSync, path.basename,
\* path.extname and fs.statSync(...).size answer for each url
FileSystem ==
  [u \in {"/a.txt", "/v.mp4", "/d.bin", "/none.txt"} |->
     CASE u = "/a.txt" ->
            [exists |-> TRUE, fileName |-> <<"a", ".", "t", "x", "t">>,
             extension |-> ".txt", size |-> 3]
       [] u = "/v.mp4" ->
            [exists |-> TRUE, fileName |-> <<"v", ".", "m", "p", "4">>,
             extension |-> ".mp4", size |-> 100000]
       [] u = "/d.bin" ->
            [exists |-> TRUE, fileName |-> <<"d", ".", "b", "i", "n">>,
             extension |-> ".bin", size |-> 10]
       [] OTHER ->
            [exists |-> FALSE, fileName |-> <<"n", "o", "n", "e", ".", "t", "x", "t">>,
             extension |-> ".txt", size |-> 0]]

rangesContentTypes ==
  [e \in {".mp4", ".txt", ".html"} |->
     CASE e = ".mp4" -> STR_audio_mp4
       [] e = ".txt" -> STR_text
       [] OTHER -> STR_text_html]

getContentInfo(extension) ==
  IF extension \in DOMAIN rangesContentTypes
  THEN [rangeSupport |-> TRUE, type |-> rangesContentTypes[extension]]
  ELSE [rangeSupport |-> FALSE, type |-> STR_octet_stream]

\* uuid4(): a token of 36 characters; one request draws one token, and
\* nothing in the program depends on which
Boundaries ==
  { <<"3", "b", "2", "4", "1", "1", "0", "1", "-", "e", "2", "b", "b", "-", "4", "2", "5", "5", "-", "8", "c", "a", "f", "-", "4", "1", "3", "6", "c", "5", "6", "6", "a", "9", "6", "2">> }

(***************************************************************************)
(* partialContentHeaders.                                                  *)
(***************************************************************************)
\* lines 150-154: the header block of part `index` (1-based here)
PartHeader(range, index, boundary, contentType, fileSize) ==
  (IF index > 1 THEN CRLF ELSE <<>>) \o <<"-", "-">> \o boundary \o CRLF
    \o STR_ContentType \o contentType \o CRLF
    \o STR_ContentRange \o NumberToString(range.start) \o <<"-">>
    \o NumberToString(range.end) \o <<"/">> \o NumberToString(fileSize) \o CRLF
    \o CRLF

RECURSIVE SumLen(_)
SumLen(texts) == IF texts = <<>> THEN 0 ELSE Len(texts[1]) + SumLen(Tail(texts))

partialContentHeaders(byteRangeSet, boundary, contentType, fileSize) ==
  LET headers == [i \in 1..Len(byteRangeSet) |->
                    PartHeader(byteRangeSet[i], i, boundary, contentType, fileSize)]
  IN [headers |-> headers, size |-> SumLen(headers)]

\* line 73
EndBoundary(boundary) == CRLF \o <<"-", "-">> \o boundary \o <<"-", "-">>

(***************************************************************************)
(* The response (http.ServerResponse).  The status line and the headers    *)
(* leave with the first write or with end(); body is what was written.     *)
(***************************************************************************)
NewResponse ==
  [statusCode |-> 200, statusMessage |-> "", headers |-> <<>>,
   headersSent |-> FALSE, sentStatus |-> 0, sentHeaders |-> <<>>,
   body |-> <<>>, finished |-> FALSE]

SetHeader(res, name, value) ==
  [res EXCEPT !.headers =
     [n \in (DOMAIN res.headers) \cup {name} |->
        IF n = name THEN value ELSE res.headers[n]]]

Flush(res) ==
  IF res.headersSent THEN res
  ELSE [res EXCEPT !.headersSent = TRUE, !.sentStatus = res.statusCode,
                   !.sentHeaders = res.headers]

TextChunk(text) == [kind |-> "text", text |-> text, stream |-> 0, from |-> 0, to |-> -1]
BytesChunk(k, from, to) == [kind |-> "bytes", text |-> <<>>, stream |-> k, from |-> from, to |-> to]
ChunkLength(c) == IF c.kind = "text" THEN Len(c.text) ELSE c.to - c.from + 1

\* response.write(chunk); a write after end() is dropped
Write(res, chunk) ==
  IF res.finished THEN res
  ELSE [Flush(res) EXCEPT !.body = Append(res.body, chunk)]

\* response.end()
End(res) == IF res.finished THEN res ELSE [Flush(res) EXCEPT !.finished = TRUE]

\* response.end(text)
EndWith(res, text) == End(Write(res, TextChunk(text)))

RECURSIVE BodyLength(_)
BodyLength(body) ==
  IF body = <<>> THEN 0 ELSE ChunkLength(body[1]) + BodyLength(Tail(body))

(***************************************************************************)
(* Read streams (fs.ReadStream).  A stream is created paused with its file *)
(* open; pipe() makes it flow; it emits data, then end, then close, or     *)
(* error and close.                                                        *)
(***************************************************************************)
NewStream(start, end) ==
  [start |-> start, end |-> end, pos |-> start, state |-> "paused",
   pipeEnd |-> FALSE, step |-> "none"]

\* fs.createReadStream validates start and end and throws a RangeError
\* (ERR_OUT_OF_RANGE) on a negative offset or on start > end
CreateReadStreamThrows(start, end) == start < 0 \/ end < 0 \/ start > end

\* lines 83-86: the streams pushed before the first throw, if any
CreateStreams(byteRangeSet) ==
  LET bad == {i \in 1..Len(byteRangeSet) :
                CreateReadStreamThrows(byteRangeSet[i].start, byteRangeSet[i].end)}
      n == IF bad = {} THEN Len(byteRangeSet)
           ELSE (CHOOSE i \in bad : \A j \in bad : i <= j) - 1
  IN [threw |-> bad # {},
      streams |-> [i \in 1..n |-> NewStream(byteRangeSet[i].start, byteRangeSet[i].end)]]

\* the last byte a stream can deliver: its end, or the end of the file
LastByte(stream, fileSize) == Min(stream.end, fileSize - 1)

\* pipe() with its default options: the response ends with the stream
pipeOptionsEnd_default == TRUE

\* the end option of readableStream.pipe(response, {end: false}), line 168
pipeOptionsEnd == FALSE

\* readable.pipe(response, {end}): the stream starts flowing
Pipe(stream, end) == [stream EXCEPT !.state = "flowing", !.pipeEnd = end]

(***************************************************************************)
(* responseAllStream.  m holds what the function touches: the response and *)
(* the streams, and the two arrays it shifts.                              *)
(***************************************************************************)
\* lines 164-181: the promise executor
responseAllStream(m) ==
  IF m.streamQueue = <<>> THEN m
  ELSE LET k == Head(m.streamQueue)
       IN [response |-> Write(m.response, TextChunk(Head(m.headerQueue))),
           streams |-> [m.streams EXCEPT
                          ![k] = [Pipe(m.streams[k], pipeOptionsEnd) EXCEPT !.step = "pending"]],
           streamQueue |-> Tail(m.streamQueue),
           headerQueue |-> Tail(m.headerQueue),
           promise |-> "pending"]

\* lines 182-189 and 87-89: what runs once the step of the current stream
\* has resolved: the next stream, or response.end(endBoundary)
AfterResolve(m, closing) ==
  IF Len(m.streamQueue) > 0
  THEN responseAllStream(m)
  ELSE [m EXCEPT !.response = EndWith(m.response, closing),
                 !.promise = "fulfilled"]

(***************************************************************************)
(* httpListener: the synchronous part of the handler, to its return.       *)
(***************************************************************************)
Outcome(res, rangesResult, strs, sq, hq, prom, closing) ==
  [response |-> res, ranges |-> rangesResult, streams |-> strs,
   streamQueue |-> sq, headerQueue |-> hq, promise |-> prom,
   endBoundary |-> closing]

NotCalled == Returned(<<>>, 0)

\* lines 119-132: the catch block
ErrorResponse(res, error) ==
  LET hasStatus == "statusCode" \in DOMAIN error
      res1 == [res EXCEPT
                 !.statusCode = IF hasStatus THEN error.statusCode ELSE 500,
                 !.statusMessage = IF hasStatus THEN error.statusMessage
                                   ELSE "Internal Server Error"]
      res2 == IF hasStatus /\ error.statusCode = RANGE_NOT_SATISFABLE.statusCode
              THEN SetHeader(res1, "Content-Range",
                     STR_bytes_star \o (IF "fileSize" \in DOMAIN error
                                        THEN NumberToString(error.fileSize)
                                        ELSE STR_undefined))
              ELSE IF hasStatus /\ error.statusCode = METHOD_NOT_ALLOWED.statusCode
              THEN SetHeader(res1, "Allow", STR_GET_HEAD)
              ELSE res1
  IN End(res2)

\* lines 52-62
BaseResponse(res, contentInfo, fileSize) ==
  LET r1 == [res EXCEPT !.statusCode = 200, !.statusMessage = "OK"]
      r2 == SetHeader(r1, "Content-Type", contentInfo.type)
      r3 == SetHeader(r2, "Content-Length", NumberToString(fileSize))
      r4 == SetHeader(r3, "Cache-Control", STR_no_cache)
  IN IF contentInfo.rangeSupport
     THEN SetHeader(r4, "Accept-Ranges", STR_bytes)
     ELSE r4

\* lines 69-92: several ranges
MultiRange(req, res, got, contentInfo, fileSize, boundary) ==
  LET partialHeaders == partialContentHeaders(got.byteRangeSet, boundary,
                                              contentInfo.type, fileSize)
      closing == EndBoundary(boundary)
      r1 == SetHeader(res, "Content-Type", STR_multipart \o boundary)
      r2 == SetHeader(r1, "Content-Length",
                      NumberToString(got.length + partialHeaders.size + Len(closing)))
      created == CreateStreams(got.byteRangeSet)
  IN IF req.method = "HEAD"
     THEN Outcome(End(r2), got, <<>>, <<>>, <<>>, "none", closing)
     ELSE IF created.threw
     THEN Outcome(ErrorResponse(r2, RangeError), got, created.streams,
                  <<>>, <<>>, "none", closing)
     ELSE LET m == responseAllStream(
                     [response |-> r2, streams |-> created.streams,
                      streamQueue |-> [i \in 1..Len(created.streams) |-> i],
                      headerQueue |-> partialHeaders.headers,
                      promise |-> "none"])
          IN Outcome(m.response, got, m.streams, m.streamQueue, m.headerQueue,
                     m.promise, closing)

\* lines 93-105: one range
SingleRange(req, res, got, fileSize) ==
  LET start == got.byteRangeSet[1].start
      end == got.byteRangeSet[1].end
      r1 == SetHeader(res, "Content-Range",
                      STR_bytes_sp \o NumberToString(start) \o <<"-">>
                        \o NumberToString(end) \o <<"/">> \o NumberToString(fileSize))
  IN IF req.method = "HEAD"
     THEN Outcome(End(r1), got, <<>>, <<>>, <<>>, "none", <<>>)
     ELSE IF CreateReadStreamThrows(start, end)
     THEN Outcome(ErrorResponse(r1, RangeError), got, <<>>, <<>>, <<>>, "none", <<>>)
     ELSE Outcome(r1, got, <<Pipe(NewStream(start, end), TRUE)>>,
                  <<>>, <<>>, "none", <<>>)

\* lines 106-118: the whole file
FullDelivery(req, res, file) ==
  LET r1 == SetHeader(res, "Content-Disposition",
                      STR_attachment \o file.fileName \o <<"\"">>)
  IN IF req.method = "HEAD"
     THEN Outcome(End(r1), NotCalled, <<>>, <<>>, <<>>, "none", <<>>)
     ELSE Outcome(r1, NotCalled, <<Pipe(NewStream(0, file.size - 1), TRUE)>>,
                  <<>>, <<>>, "none", <<>>)

HasRange(req) == "range" \in DOMAIN req.headers /\ req.headers["range"] # <<>>

\* lines 33-134, boundary being what uuid4() returns when it is called
Listener(req, boundary) ==
  LET file == FileSystem[req.url]
      contentInfo == getContentInfo(file.extension)
      fileSize == file.size
      base == BaseResponse(NewResponse, contentInfo, fileSize)
  IN IF req.method \notin {"GET", "HEAD"}
     THEN Outcome(ErrorResponse(NewResponse, METHOD_NOT_ALLOWED), NotCalled,
                  <<>>, <<>>, <<>>, "none", <<>>)
     ELSE IF ~file.exists
     THEN Outcome(ErrorResponse(NewResponse, NOT_FOUND), NotCalled,
                  <<>>, <<>>, <<>>, "none", <<>>)
     ELSE IF contentInfo.rangeSupport /\ HasRange(req)
     THEN LET r206 == [base EXCEPT !.statusCode = 206]
              got == getRanges(req.headers["range"], fileSize,
                               [DefaultOptions EXCEPT !.partialMaxLength = partialMaxLength])
          IN IF got.threw
             THEN Outcome(ErrorResponse(r206, got.error), got,
                          <<>>, <<>>, <<>>, "none", <<>>)
             ELSE IF Len(got.byteRangeSet) > 1
             THEN MultiRange(req, r206, got, contentInfo, fileSize, boundary)
             ELSE SingleRange(req, r206, got, fileSize)
     ELSE FullDelivery(req, base, file)

(***************************************************************************)
(* The requests of the model.                                              *)
(***************************************************************************)
\* "a-b", "a-", "-b" and "-" over the offsets O; -1 stands for an omitted side
SpecTexts(O) ==
  { (IF a = -1 THEN <<>> ELSE NumberToString(a)) \o <<"-">>
      \o (IF b = -1 THEN <<>> ELSE NumberToString(b)) :
      a \in O \cup {-1}, b \in O \cup {-1} }

\* "bytes=" followed by 1..n range-specs separated by ","
HeaderTexts(specs, n) ==
  { STR_bytes \o <<"=">> \o Join(list, <<",">>) :
      list \in UNION { [1..k -> specs] : k \in 1..n } }

\* headers outside the grammar, or with another unit
OddHeaders ==
  { <<"i", "t", "e", "m", "s", "=", "0", "-", "5">>,
    <<"b", "y", "t", "e", "s">>,
    <<"b", "y", "t", "e", "s", "=">>,
    <<"b", "y", "t", "e", "s", "=", "a", "b", "c">>,
    <<" ", "b", "y", "t", "e", "s", "=", "0", "-", "5", " ">>,
    <<"b", "y", "t", "e", "s", " ", "=", "0", "-", "5">>,
    <<>> }

Offsets == {0, 3, 5}

RangeHeaders == HeaderTexts(SpecTexts(Offsets), MaxSpecs) \cup OddHeaders

Requests ==
  { [method |-> m, url |-> u, headers |-> h] :
      m \in {"GET", "HEAD", "POST"},
      u \in DOMAIN FileSystem,
      h \in {<<>>} \cup { [n \in {"range"} |-> r] : r \in RangeHeaders } }

NoCall == [range |-> <<>>, fileSize |-> 0, options |-> DefaultOptions, specs |-> <<>>]

Init ==
  /\ request \in Requests
  /\ pc = "start"
  /\ response = NewResponse
  /\ ranges = NotCalled
  /\ streams = <<>>
  /\ streamQueue = <<>>
  /\ headerQueue = <<>>
  /\ promise = "none"
  /\ endBoundary = <<>>
  /\ sinkClosed = FALSE
  /\ call = NoCall
  /\ ret = NotCalled

FileSize == FileSystem[request.url].size

(***************************************************************************)
(* The steps of a request.                                                 *)
(***************************************************************************)
\* the request event: httpListener runs to its return
HttpListener ==
  /\ pc = "start"
  /\ \E boundary \in Boundaries :
       LET o == Listener(request, boundary)
       IN /\ response' = o.response
          /\ ranges' = o.ranges
          /\ streams' = o.streams
          /\ streamQueue' = o.streamQueue
          /\ headerQueue' = o.headerQueue
          /\ promise' = o.promise
          /\ endBoundary' = o.endBoundary
  /\ pc' = "returned"
  /\ UNCHANGED <<request, sinkClosed, call, ret>>

Multiplexer ==
  [response |-> response, streams |-> streams, streamQueue |-> streamQueue,
   headerQueue |-> headerQueue, promise |-> promise]

SetMultiplexer(m) ==
  /\ response' = m.response
  /\ streams' = m.streams
  /\ streamQueue' = m.streamQueue
  /\ headerQueue' = m.headerQueue
  /\ promise' = m.promise

\* resolve(...) called by a listener of stream k (lines 170, 173): it settles
\* the step's promise once, and the .then callbacks run
Resolve(m, k, closing) ==
  IF m.streams[k].step = "pending"
  THEN AfterResolve([m EXCEPT !.streams[k].step = "resolved"], closing)
  ELSE m

\* 'data' of stream k: pipe() writes the chunk to the response
StreamData(k) ==
  /\ pc = "returned"
  /\ streams[k].state = "flowing"
  /\ streams[k].pos <= LastByte(streams[k], FileSize)
  /\ LET from == streams[k].pos
         n == Min(highWaterMark, LastByte(streams[k], FileSize) - from + 1)
     IN /\ response' = Write(response, BytesChunk(k, from, from + n - 1))
        /\ streams' = [streams EXCEPT ![k].pos = from + n]
  /\ UNCHANGED <<request, pc, ranges, streamQueue, headerQueue, promise,
                 endBoundary, sinkClosed, call, ret>>

\* 'end' of stream k: pipe() ends the response unless {end: false}, then the
\* listener of line 172 resolves
StreamEnd(k) ==
  /\ pc = "returned"
  /\ streams[k].state = "flowing"
  /\ streams[k].pos > LastByte(streams[k], FileSize)
  /\ LET m0 == [Multiplexer EXCEPT
                  !.streams[k].state = "ended",
                  !.response = IF streams[k].pipeEnd THEN End(response) ELSE response]
     IN SetMultiplexer(Resolve(m0, k, endBoundary))
  /\ UNCHANGED <<request, pc, ranges, endBoundary, sinkClosed, call, ret>>

\* 'close' of stream k, after its end or its error (autoClose): the listener
\* of line 169 resolves
StreamClose(k) ==
  /\ pc = "returned"
  /\ streams[k].state \in {"ended", "errored"}
  /\ LET m0 == [Multiplexer EXCEPT !.streams[k].state = "closed"]
     IN SetMultiplexer(Resolve(m0, k, endBoundary))
  /\ UNCHANGED <<request, pc, ranges, endBoundary, sinkClosed, call, ret>>

\* 'error' of stream k while it is read.  With the listener of line 175 the
\* step rejects, the .catch of line 89 logs and throws inside the promise
\* chain, and nothing handles that rejection: the runtime warns or, by its
\* default since Node 15, terminates the process.  Without a listener
\* (lines 104, 117) the error event is an uncaught exception.
StreamError(k) ==
  /\ pc = "returned"
  /\ streams[k].state = "flowing"
  /\ IF streams[k].step = "pending"
     THEN /\ streams' = [streams EXCEPT ![k].state = "errored", ![k].step = "rejected"]
          /\ promise' = "rejected"
          /\ pc' \in {"returned", "crashed"}
     ELSE /\ streams' = [streams EXCEPT ![k].state = "errored"]
          /\ promise' = promise
          /\ pc' = "crashed"
  /\ UNCHANGED <<request, response, ranges, streamQueue, headerQueue,
                 endBoundary, sinkClosed, call, ret>>

\* the transport closes the response before it finished: the 'close' listener
\* that pipe() put on the response unpipes the flowing stream, which stays
\* paused; the program has no other listener for it
SinkClose ==
  /\ pc = "returned"
  /\ ~sinkClosed
  /\ ~response.finished
  /\ sinkClosed' = TRUE
  /\ streams' = [k \in DOMAIN streams |->
                   IF streams[k].state = "flowing"
                   THEN [streams[k] EXCEPT !.state = "unpiped"]
                   ELSE streams[k]]
  /\ UNCHANGED <<request, pc, response, ranges, streamQueue, headerQueue,
                 promise, endBoundary, call, ret>>

Next ==
  \/ HttpListener
  \/ \E k \in DOMAIN streams : StreamData(k)
  \/ \E k \in DOMAIN streams : StreamEnd(k)
  \/ \E k \in DOMAIN streams : StreamClose(k)
  \/ \E k \in DOMAIN streams : StreamError(k)
  \/ SinkClose

Spec == Init /\ [][Next]_vars

\* the events of the read streams
StreamEvents ==
  \E k \in DOMAIN streams :
    StreamData(k) \/ StreamEnd(k) \/ StreamClose(k) \/ StreamError(k)

\* the steps of a request whose transport stays open
NextOpen ==
  \/ HttpListener
  \/ \E k \in DOMAIN streams : StreamData(k)
  \/ \E k \in DOMAIN streams : StreamEnd(k)
  \/ \E k \in DOMAIN streams : StreamClose(k)
  \/ \E k \in DOMAIN streams : StreamError(k)

\* the transport stays open, and a stream that has an event to emit (data,
\* end, close or error) goes on to emit one
SpecOpen == Init /\ [][NextOpen]_vars /\ WF_vars(StreamEvents)

(***************************************************************************)
(* getRanges called directly, over a wider set of headers and options.     *)
(***************************************************************************)
\* offsets around SMALL_RANGE, for the heuristic and the truncation
CallOffsets == {0, 65535, 65536, 131071}
\* the offsets of the examples of lines 193-197
SmallOffsets == {0, 1}

\* the range-specs over the offsets O as pairs <<a, b>>, -1 for an omitted side
SpecPairs(O) == (O \cup {-1}) \X (O \cup {-1})

\* the text of a range-spec: "a-b", "a-", "-b" or "-"
SpecText(p) ==
  (IF p[1] = -1 THEN <<>> ELSE NumberToString(p[1])) \o <<"-">>
    \o (IF p[2] = -1 THEN <<>> ELSE NumberToString(p[2]))

\* "bytes=" followed by the texts of the specs of list, separated by ","
HeaderText(list) ==
  STR_bytes \o <<"=">> \o Join([i \in 1..Len(list) |-> SpecText(list[i])], <<",">>)

\* the options httpListener passes (line 68)
ListenerOptions == [DefaultOptions EXCEPT !.partialMaxLength = partialMaxLength]

\* the option sets of the calls: the one httpListener passes, the defaults of
\* line 192, and the first with correctValues on
CallOptions ==
  { ListenerOptions,
    DefaultOptions,
    [ListenerOptions EXCEPT !.correctValues = TRUE] }

CallFileSizes == {1000, 600000}

\* the lists of 1..MaxCallSpecs range-specs over the offsets O
CallLists(O) == UNION { [1..k -> SpecPairs(O)] : k \in 1..MaxCallSpecs }

\* a call holds, besides the arguments, the specs its header was written from
\* (<<>> for a header outside the grammar)
Call(range, fileSize, options, specs) ==
  [range |-> range, fileSize |-> fileSize, options |-> options, specs |-> specs]

\* the calls: headers over CallOffsets with the options of httpListener,
\* headers over SmallOffsets and headers outside the grammar with every
\* option set
InitRanges ==
  /\ request = [method |-> "GET", url |-> "/a.txt", headers |-> <<>>]
  /\ pc = "calling"
  /\ response = NewResponse
  /\ ranges = NotCalled
  /\ streams = <<>>
  /\ streamQueue = <<>>
  /\ headerQueue = <<>>
  /\ promise = "none"
  /\ endBoundary = <<>>
  /\ sinkClosed = FALSE
  /\ \/ \E list \in CallLists(CallOffsets), n \in CallFileSizes :
          call = Call(HeaderText(list), n, ListenerOptions, list)
     \/ \E list \in CallLists(SmallOffsets), n \in CallFileSizes, o \in CallOptions :
          call = Call(HeaderText(list), n, o, list)
     \/ \E r \in OddHeaders, n \in CallFileSizes, o \in CallOptions :
          call = Call(r, n, o, <<>>)
  /\ ret = NotCalled

GetRangesCall ==
  /\ pc = "calling"
  /\ ret' = getRanges(call.range, call.fileSize, call.options)
  /\ pc' = "called"
  /\ UNCHANGED <<request, response, ranges, streams, streamQueue, headerQueue,
                 promise, endBoundary, sinkClosed, call>>

NextRanges == GetRangesCall

SpecRanges == InitRanges /\ [][NextRanges]_vars

(***************************************************************************)
(* Properties.                                                             *)
(***************************************************************************)
Handled == pc \in {"returned", "crashed"}

\* getRanges returned a range set to httpListener
Accepted == Handled /\ ~ranges.threw /\ Len(ranges.byteRangeSet) >= 1
SingleAccepted == Accepted /\ Len(ranges.byteRangeSet) = 1
MultiAccepted == Accepted /\ Len(ranges.byteRangeSet) > 1

\* the request reaches getRanges: GET or HEAD of an existing file of a
\* range-capable type, with a Range header
RangeRequest ==
  /\ request.method \in {"GET", "HEAD"}
  /\ FileSystem[request.url].exists
  /\ getContentInfo(FileSystem[request.url].extension).rangeSupport
  /\ HasRange(request)

HeaderNumber(headers, name) == Number(headers[name])

\* C1: an accepted multi-range GET that was written to its closing boundary
\* announced, as Content-Length, the number of bytes written to the response
C1_ContentLengthIsBytesWritten ==
  (request.method = "GET" /\ MultiAccepted /\ promise = "fulfilled")
    => HeaderNumber(response.sentHeaders, "Content-Length") = BodyLength(response.body)

\* C2: an accepted single-range request is answered 206 with Content-Range
\* "bytes start-end/fileSize" and Content-Length end-start+1
C2_SingleRangeResponse ==
  SingleAccepted =>
    LET r == ranges.byteRangeSet[1]
    IN /\ response.statusCode = 206
       /\ "Content-Range" \in DOMAIN response.headers
       /\ response.headers["Content-Range"] =
            STR_bytes_sp \o NumberToString(r.start) \o <<"-">> \o NumberToString(r.end)
              \o <<"/">> \o NumberToString(FileSize)
       /\ HeaderNumber(response.headers, "Content-Length") = r.end - r.start + 1

\* the unit of a Range header: the text in front of the first "="
UnitOf(range) == Split(Trim(range), "=")[1]

\* C3: a Range header with a unit other than "bytes" is answered 416 without
\* a Content-Range header
C3_InvalidUnitHasNoContentRange ==
  (Handled /\ RangeRequest /\ UnitOf(request.headers["range"]) # STR_bytes)
    => /\ response.statusCode = 416
       /\ "Content-Range" \notin DOMAIN response.headers

\* the range set a header expands to, whatever the heuristic says of it
\* (<<>> when the header does not parse)
Expanded(range, fileSize, options) ==
  getRanges(range, fileSize, [options EXCEPT !.preventAtack = FALSE]).byteRangeSet

Width(r) == r.end - r.start + 1
Consecutive(set) == 1..(Len(set) - 1)
\* two well-formed ranges share at least one byte offset
Overlap(a, b) == Max(a.start, b.start) <= Min(a.end, b.end)

\* at least two ranges, each well-formed and narrower than 64 KiB, some
\* range starting before its predecessor, some consecutive pair overlapping
ShuffledOverlappingSmall(set) ==
  /\ Len(set) >= 2
  /\ \A i \in 1..Len(set) :
       0 <= set[i].start /\ set[i].start <= set[i].end /\ Width(set[i]) < SMALL_RANGE
  /\ \E i \in Consecutive(set) : set[i + 1].start < set[i].start
  /\ \E i \in Consecutive(set) : Overlap(set[i], set[i + 1])

RequestExpanded ==
  Expanded(request.headers["range"], FileSize,
           [DefaultOptions EXCEPT !.partialMaxLength = partialMaxLength])

\* C4: a set of two or more narrow ranges, out of ascending order and with
\* consecutive ranges overlapping, is rejected: 416 with
\* Content-Range "bytes */fileSize"
C4_ShuffledOverlappingSmallRejected ==
  (Handled /\ RangeRequest /\ ShuffledOverlappingSmall(RequestExpanded))
    => /\ isDenialOfServiceAttacks(RequestExpanded)
       /\ ranges.threw
       /\ response.statusCode = 416
       /\ "Content-Range" \in DOMAIN response.headers
       /\ response.headers["Content-Range"] = STR_bytes_star \o NumberToString(FileSize)

\* exactly two ranges, disjoint, ascending, each at least 64 KiB wide
TwoWideAscending(set) ==
  /\ Len(set) = 2
  /\ \A i \in 1..2 : Width(set[i]) >= SMALL_RANGE
  /\ set[1].end < set[2].start

CallExpanded == Expanded(call.range, call.fileSize, call.options)

\* C5: two disjoint ascending ranges, each at least 64 KiB wide, score less
\* than POINT_OF_NOT_SATISFABLE and getRanges returns them
C5_TwoWideAscendingAccepted ==
  (pc = "called" /\ TwoWideAscending(CallExpanded))
    => /\ ~ret.threw
       /\ ret.byteRangeSet = CallExpanded
       /\ DosScore(CallExpanded).POINT_SUM * DosScore(CallExpanded).MULTIPLICATOR
            < POINT_OF_NOT_SATISFABLE * MULTIPLICATOR_SCALE

\* C5 witness: two adjacent ranges of exactly 64 KiB each were accepted
C5_Witness ==
  /\ pc = "called"
  /\ TwoWideAscending(CallExpanded)
  /\ ~ret.threw
  /\ ret.byteRangeSet = <<[start |-> 0, end |-> 65535], [start |-> 65536, end |-> 131071]>>

\* C6: HEAD of an accepted range request leaves the status and the headers
\* that GET of the same request leaves (with the same boundary token), ends
\* the response with no body and creates no read stream
C6_HeadMatchesGet ==
  (Handled /\ request.method = "HEAD" /\ Accepted)
    => /\ \E boundary \in Boundaries :
            LET get == Listener([request EXCEPT !.method = "GET"], boundary)
            IN /\ response.statusCode = get.response.statusCode
               /\ response.headers = get.response.headers
       /\ response.finished
       /\ response.body = <<>>
       /\ streams = <<>>

\* C7: once a span's read error has rejected responseAllStream, the request
\* is answered with status 500 and the response is ended
C7_ReadErrorSurfacesAsInternal ==
  promise = "rejected"
    => /\ response.finished
       /\ response.statusCode = 500
       /\ response.sentStatus = 500

(***************************************************************************)
(* The wire format of a multipart body, from the accepted range set alone. *)
(***************************************************************************)
\* the boundary token of the response under way
CurrentBoundary == CHOOSE b \in Boundaries : EndBoundary(b) = endBoundary

\* the bytes of the file that range i covers, as one chunk (none if empty)
SpanChunks(i) ==
  LET r == ranges.byteRangeSet[i]
      last == Min(r.end, FileSize - 1)
  IN IF r.start <= last THEN <<BytesChunk(i, r.start, last)>> ELSE <<>>

RECURSIVE PartsFrom(_)
PartsFrom(i) ==
  IF i > Len(ranges.byteRangeSet) THEN <<>>
  ELSE <<TextChunk(PartHeader(ranges.byteRangeSet[i], i, CurrentBoundary,
                              getContentInfo(FileSystem[request.url].extension).type,
                              FileSize))>>
         \o SpanChunks(i) \o PartsFrom(i + 1)

ExpectedBody == PartsFrom(1) \o <<TextChunk(endBoundary)>>

\* the written chunks with consecutive chunks of one span joined
RECURSIVE Joined(_)
Joined(body) ==
  IF Len(body) < 2 THEN body
  ELSE LET rest == Joined(Tail(body))
           a == body[1]
           b == rest[1]
       IN IF a.kind = "bytes" /\ b.kind = "bytes" /\ a.stream = b.stream /\ a.to + 1 = b.from
          THEN <<BytesChunk(a.stream, a.from, b.to)>> \o Tail(rest)
          ELSE <<a>> \o rest

\* written is a prefix of expected, its last chunk possibly a span under way
IsWirePrefix(written, expected) ==
  /\ Len(written) <= Len(expected)
  /\ \A i \in 1..Len(written) :
       \/ written[i] = expected[i]
       \/ /\ i = Len(written)
          /\ written[i].kind = "bytes" /\ expected[i].kind = "bytes"
          /\ written[i].stream = expected[i].stream
          /\ written[i].from = expected[i].from
          /\ written[i].to <= expected[i].to

Drained(k) ==
  streams[k].state \in {"ended", "closed"} /\ streams[k].pos > LastByte(streams[k], FileSize)

\* C8: in a multi-range GET the bytes written are at every moment a prefix
\* of: each part's header block and then its span, in the client's order,
\* and the closing boundary; a span is started only after the span before it
\* has ended, the closing boundary is written only after the last span
\* ended, and the finished body is exactly that sequence
C8_PartsInOrder ==
  (request.method = "GET" /\ MultiAccepted /\ streams # <<>> /\ promise # "none")
    => /\ IsWirePrefix(Joined(response.body), ExpectedBody)
       /\ \A k \in DOMAIN streams :
            streams[k].state # "paused" => \A j \in 1..(k - 1) : Drained(j)
       /\ promise = "fulfilled"
            => /\ \A k \in DOMAIN streams : Drained(k)
               /\ Joined(response.body) = ExpectedBody

\* C8 witness: a multipart body of two or more parts was completed, with
\* bytes of the first two spans in it
C8_Witness ==
  /\ request.method = "GET" /\ MultiAccepted
  /\ promise = "fulfilled"
  /\ response.finished
  /\ \E i, j \in 1..Len(response.body) :
       /\ i < j
       /\ response.body[i].kind = "bytes" /\ response.body[i].stream = 1
       /\ response.body[j].kind = "bytes" /\ response.body[j].stream = 2

\* a stream whose file is open: created and neither ended nor closed
IsOpen(stream) == stream.state \in {"paused", "flowing", "unpiped"}

\* C9: at most one byte-span source is open at any time
C9_AtMostOneOpenSpan ==
  Cardinality({k \in DOMAIN streams : IsOpen(streams[k])}) <= 1

\* no step is left to take
Quiescent == ~ENABLED Next

\* C10: when the transport has closed the response early during a
\* multi-range response and the request has come to rest, the span that was
\* open is closed, no later span was started and no error was surfaced
C10_SinkCloseReleasesSpan ==
  (MultiAccepted /\ sinkClosed /\ Quiescent)
    => /\ \A k \in DOMAIN streams :
            (streams[k].step # "none") => ~IsOpen(streams[k])
       /\ \A k \in DOMAIN streams :
            (streams[k].step = "none") => streams[k].state = "paused"
       /\ response.sentStatus \in {0, 206}

(***************************************************************************)
(* Truncation to partialMaxLength.                                         *)
(***************************************************************************)
\* the ranges of the call as expanded with partialMaxLength off
CallUntruncated ==
  Expanded(call.range, call.fileSize, [call.options EXCEPT !.partialMaxLength = 0])

\* the ranges of the call: as returned, or as expanded when the set is rejected
CallRanges == IF ret.threw THEN CallExpanded ELSE ret.byteRangeSet

\* out is raw cut to maxLength bytes from its start, or raw itself when raw
\* is not wider than maxLength
IsTruncationOf(out, raw, maxLength) ==
  IF Width(raw) > maxLength
  THEN out.start = raw.start /\ out.end = raw.start + maxLength - 1 /\ Width(out) = maxLength
  ELSE out = raw

\* C11: with partialMaxLength > 0, a range wider than partialMaxLength after
\* expansion keeps its start and has its end reduced to
\* start + partialMaxLength - 1 (width exactly partialMaxLength); a range not
\* wider than partialMaxLength is left unchanged
C11_TruncatedToMaxLength ==
  (pc = "called" /\ call.options.partialMaxLength > 0)
    => LET raw == CallUntruncated
           cut == CallRanges
       IN /\ Len(cut) = Len(raw)
          /\ \A i \in 1..Len(raw) :
               IsTruncationOf(cut[i], raw[i], call.options.partialMaxLength)

\* C11 witness: getRanges returned two ranges, one cut to partialMaxLength
\* bytes and one left as it was
C11_Witness ==
  /\ pc = "called" /\ call.options.partialMaxLength > 0 /\ ~ret.threw
  /\ Len(ret.byteRangeSet) = 2
  /\ \E i, j \in 1..2 :
       /\ Width(CallUntruncated[i]) > call.options.partialMaxLength
       /\ Width(ret.byteRangeSet[i]) = call.options.partialMaxLength
       /\ ret.byteRangeSet[i].start = CallUntruncated[i].start
       /\ Width(CallUntruncated[j]) <= call.options.partialMaxLength
       /\ ret.byteRangeSet[j] = CallUntruncated[j]

(***************************************************************************)
(* The grammar of the Range header, on the specs a header was written from.*)
(***************************************************************************)
\* the spec <<a, b>> has one of the forms "a-b" with 0 <= a <= b < fileSize,
\* "a-" and "-n"
InGrammar(p, fileSize) ==
  \/ p[1] # -1 /\ p[2] # -1 /\ 0 <= p[1] /\ p[1] <= p[2] /\ p[2] < fileSize
  \/ p[1] # -1 /\ p[2] = -1
  \/ p[1] = -1 /\ p[2] # -1

\* the range the grammar gives such a spec on a file of fileSize bytes
GrammarRange(p, fileSize) ==
  IF p[1] # -1 /\ p[2] # -1 THEN [start |-> p[1], end |-> p[2]]
  ELSE IF p[1] # -1 THEN [start |-> p[1], end |-> fileSize - 1]
  ELSE [start |-> fileSize - p[2], end |-> fileSize - 1]

\* C12: a header "bytes=" of k specs expands to exactly k ranges in the
\* client's order, where "a-b" with 0 <= a <= b < fileSize gives {a, b}, "a-"
\* gives {a, fileSize-1} and "-n" gives {fileSize-n, fileSize-1} (with
\* correctValues off, a range wider than a partialMaxLength in force being
\* cut as C11 says); getRanges returns these ranges, or rejects the whole set
\* with RANGE_NOT_SATISFABLE
C12_ExpandsAsGrammar ==
  (pc = "called" /\ call.specs # <<>> /\ ~call.options.correctValues)
    => LET got == CallRanges
           maxLength == call.options.partialMaxLength
       IN /\ Len(got) = Len(call.specs)
          /\ \A i \in 1..Len(call.specs) :
               LET expected == GrammarRange(call.specs[i], call.fileSize)
               IN (InGrammar(call.specs[i], call.fileSize)
                     /\ (maxLength = 0 \/ Width(expected) <= maxLength))
                    => got[i] = expected
          /\ ret.threw => ret.error.statusCode = RANGE_NOT_SATISFABLE.statusCode

\* C12 witness: "bytes=0-0,-1" on 1000 bytes returned {0,0},{999,999},
\* length 2
C12_Witness ==
  /\ pc = "called"
  /\ call.range = <<"b", "y", "t", "e", "s", "=", "0", "-", "0", ",", "-", "1">>
  /\ call.fileSize = 1000
  /\ ~ret.threw
  /\ ret.byteRangeSet = <<[start |-> 0, end |-> 0], [start |-> 999, end |-> 999]>>
  /\ ret.length = 2

(***************************************************************************)
(* The length getRanges returns.                                           *)
(***************************************************************************)
RECURSIVE SumWidths(_)
SumWidths(set) == IF set = <<>> THEN 0 ELSE Width(set[1]) + SumWidths(Tail(set))

\* C13: the length getRanges returns is the sum of end - start + 1 over the
\* ranges it returns, as returned (clamped and truncated where the options
\* say so)
C13_LengthIsSumOfWidths ==
  (pc = "called" /\ ~ret.threw) => ret.length = SumWidths(ret.byteRangeSet)

\* C13 witness: two ranges were returned, one of them cut to
\* partialMaxLength, and length counts the cut width
C13_Witness ==
  /\ pc = "called" /\ ~ret.threw
  /\ Len(ret.byteRangeSet) = 2
  /\ \E i \in 1..2 :
       /\ Width(CallUntruncated[i]) > partialMaxLength
       /\ Width(ret.byteRangeSet[i]) = partialMaxLength
  /\ ret.length = Width(ret.byteRangeSet[1]) + Width(ret.byteRangeSet[2])
  /\ ret.length < SumWidths(CallUntruncated)

(***************************************************************************)
(* Methods other than GET and HEAD.                                        *)
(***************************************************************************)
\* C14: a request whose method is neither GET nor HEAD is answered 405 with
\* the header "Allow: GET,HEAD" and no other header, and with an empty body,
\* whatever its URL and headers; getRanges is not called and no read stream
\* is created
C14_OtherMethodNotAllowed ==
  (Handled /\ request.method \notin {"GET", "HEAD"})
    => /\ pc = "returned"
       /\ response.finished
       /\ response.statusCode = 405 /\ response.sentStatus = 405
       /\ response.statusMessage = "Method Not Allowed"
       /\ DOMAIN response.sentHeaders = {"Allow"}
       /\ response.sentHeaders["Allow"] = <<"G", "E", "T", ",", "H", "E", "A", "D">>
       /\ response.body = <<>>
       /\ ranges = NotCalled
       /\ streams = <<>>
       /\ promise = "none"
       /\ ~ENABLED Next

\* C14 witness: a POST for a file that does not exist, with a Range header
\* outside the grammar, was answered 405
C14_Witness ==
  /\ Handled
  /\ request.method = "POST"
  /\ ~FileSystem[request.url].exists
  /\ HasRange(request) /\ request.headers["range"] = <<"b", "y", "t", "e", "s">>
  /\ response.finished /\ response.sentStatus = 405

(***************************************************************************)
(* The bounds of the ranges served.                                        *)
(***************************************************************************)
\* the range lies within a file of fileSize bytes
WithinFile(r, fileSize) == 0 <= r.start /\ r.start <= r.end /\ r.end <= fileSize - 1

\* C15: every range of a response sent with status 206 (the range of the
\* Content-Range header of a single-range response, each part of a
\* multi-range response) satisfies 0 <= start <= end <= fileSize - 1
C15_ServedRangesWithinFile ==
  (Accepted /\ response.headersSent /\ response.sentStatus = 206)
    => \A i \in 1..Len(ranges.byteRangeSet) : WithinFile(ranges.byteRangeSet[i], FileSize)

(***************************************************************************)
(* Ranges with start > end.                                                *)
(***************************************************************************)
\* C16: with preventAtack on, every range of a set getRanges returns has
\* end >= start, with as many ranges as the header has specs (none dropped);
\* a set in which some range has start > end is thrown as
\* RANGE_NOT_SATISFABLE (416) with the file size
C16_InvertedRangeRejected ==
  (pc = "called" /\ call.options.preventAtack /\ call.specs # <<>>)
    => /\ ~ret.threw =>
            /\ Len(ret.byteRangeSet) = Len(call.specs)
            /\ \A i \in 1..Len(ret.byteRangeSet) :
                 ret.byteRangeSet[i].end >= ret.byteRangeSet[i].start
       /\ (\E i \in 1..Len(CallRanges) : CallRanges[i].start > CallRanges[i].end)
            => /\ ret.threw
               /\ ret.error.statusCode = 416
               /\ ret.error.statusMessage = "Range Not Satisfable"
               /\ ret.error.fileSize = call.fileSize

\* C16 witness: a set of two ranges, the second with start > end and the
\* first wide and in order, was rejected
C16_Witness ==
  /\ pc = "called" /\ call.options.preventAtack
  /\ ret.threw /\ ret.error.statusCode = 416
  /\ Len(CallExpanded) = 2
  /\ Width(CallExpanded[1]) > SMALL_RANGE
  /\ CallExpanded[2].start > CallExpanded[2].end

(***************************************************************************)
(* The terms of the score.                                                 *)
(***************************************************************************)
\* every range of the set has 0 <= start <= end
WellFormed(set) == \A i \in 1..Len(set) : 0 <= set[i].start /\ set[i].start <= set[i].end

\* some range starts before the range in front of it
OutOfOrder(set) == \E i \in Consecutive(set) : set[i + 1].start < set[i].start

\* C17: the multiplier of the point sum is 1.5 exactly when some pair of
\* consecutive ranges is out of ascending order by start (the later range
\* starts before the earlier one), and 1 for a set in ascending order;
\* stated of the sets of well-formed ranges
C17_MultiplierWhenOutOfOrder ==
  (pc = "called" /\ call.specs # <<>> /\ WellFormed(CallRanges))
    => LET set == CallRanges
       IN DosScore(set).MULTIPLICATOR =
            (IF OutOfOrder(set) THEN POINT_NOT_SORTED_MULTIPLICATOR ELSE MULTIPLICATOR_SCALE)

\* C18: for a set of well-formed ranges the point sum is POINT_SMALL_RANGE
\* for each small range plus POINT_CROSS_RANGE for each pair of consecutive
\* ranges that share at least one byte offset, and nothing for a pair that
\* shares none
C18_CrossPointsWhenOverlapping ==
  (pc = "called" /\ call.specs # <<>> /\ WellFormed(CallRanges))
    => LET set == CallRanges
       IN DosScore(set).POINT_SUM =
            POINT_SMALL_RANGE * Cardinality({i \in 1..Len(set) : IsSmallRange(set[i])})
              + POINT_CROSS_RANGE
                  * Cardinality({i \in Consecutive(set) : Overlap(set[i], set[i + 1])})

(***************************************************************************)
(* Termination of a request.                                               *)
(***************************************************************************)
\* the response has been ended, with the status that was sent
Ended ==
  /\ response.finished
  /\ response.headersSent
  /\ response.sentStatus = response.statusCode

\* C19: with the transport staying open and every stream emitting its
\* events, every multi-range request that httpListener has handled comes to
\* a state in which the response has been ended with its final status, also
\* when a read fails in the middle of the response
C19_EveryRequestEnds == (pc = "returned" /\ MultiAccepted) ~> Ended

(***************************************************************************)
(* Range headers outside the grammar.                                      *)
(***************************************************************************)
\* C20: a GET or HEAD of an existing range-capable file with a Range header
\* is answered 206 or 416, never 500, whatever the header holds
C20_RangeHeaderNeverInternalError ==
  (Handled /\ RangeRequest)
    => /\ response.statusCode \in {206, 416}
       /\ response.headersSent => response.sentStatus \in {206, 416}

====
